---------------------------- MODULE Spec2Model ----------------------------
(***************************************************************************)
(* A model of the `property` derive macro crate (src/src/lib.rs and        *)
(* src/src/generate.rs): the type classifier, the getter / clear strategy  *)
(* selectors, the per-field method assembly, the equality / ordering       *)
(* synthesis, and the `property_default` entry point.                      *)
(*                                                                         *)
(* A macro expansion is a pure function of its input; every expansion is   *)
(* one action.  A panic of the macro is modelled as the value              *)
(* [tag |-> "Panic", msg |-> ...] that every caller propagates.            *)
(***************************************************************************)
EXTENDS Integers, Sequences, FiniteSets, TLC

VARIABLES
    ty,            \* SpecClassify: the syn::Type handed to FieldType::from_type
    category,      \* SpecClassify: what from_type returned for it
    input,         \* the item / container the macro was last invoked on
    expanded,      \* what that invocation returned
    default_conf,  \* the process-wide default configuration (CrateConfDef)
    self_,         \* SpecSet: the fields of the record instance (the receiver)
    call,          \* SpecSet: the last setter call: its argument and the
                   \* field's contents right before it
    ret            \* SpecSet: what the last setter call returned

vars == <<ty, category, input, expanded, default_conf, self_, call, ret>>

Pending == [tag |-> "Pending"]

(***************************************************************************)
(* Bounds of the model.                                                    *)
(***************************************************************************)
\* longest generic-argument list of a type expression
MaxArgs == 2
\* most fields of a record that carries serial numbers
MaxFields == 3
\* largest serial number
MaxSerial == 3
\* longest growable list (field contents or setter input)
MaxLen == 2

(***************************************************************************)
(* syn::Type, as far as the macro looks into it.                           *)
(*   Path : the idents of the path's segments and the arguments of the     *)
(*          FIRST segment (the only ones from_type reads)                  *)
(*   Array: [elem; len]                                                    *)
(*   Other: every other form (reference, tuple, pointer, fn, ...)          *)
(***************************************************************************)
PathNone(segs) ==
    [kind |-> "Path", segs |-> segs, arguments |-> "None", args |-> <<>>]
PathParen(segs) ==
    [kind |-> "Path", segs |-> segs, arguments |-> "Parenthesized", args |-> <<>>]
PathAngle(segs, args) ==
    [kind |-> "Path", segs |-> segs, arguments |-> "AngleBracketed", args |-> args]
TypeArray(elem) == [kind |-> "Array", elem |-> elem]
TypeOther == [kind |-> "Other"]

\* syn::GenericArgument
ArgType(t) == [kind |-> "Type", ty |-> t]
ArgLifetime == [kind |-> "Lifetime"]
ArgConst == [kind |-> "Const"]

Panic(msg) == [tag |-> "Panic", msg |-> msg]
IsPanic(v) == v.tag = "Panic"

(***************************************************************************)
(* generate.rs: FieldType                                                  *)
(***************************************************************************)
Number == [tag |-> "Number"]
Boolean == [tag |-> "Boolean"]
Character == [tag |-> "Character"]
String_ == [tag |-> "String_"]
Array(type_array) == [tag |-> "Array", inner |-> type_array]
Vector(inner_type) == [tag |-> "Vector", inner |-> inner_type]
Option_(args) == [tag |-> "Option_", inner |-> args]
\* Unhandled(Option<String>): name is <<>> (None) or <<type_name>> (Some)
Unhandled(name) == [tag |-> "Unhandled", name |-> name]

NumberNames ==
    {"f32", "f64", "i8", "i16", "i32", "i64", "i128", "isize",
     "u8", "u16", "u32", "u64", "u128", "usize"}

\* the "Vec" arm of from_type: inner.args[0] panics on an empty list
from_type_Vec(type_path) ==
    IF type_path.arguments = "AngleBracketed"
    THEN IF Len(type_path.args) = 0
         THEN Panic("index out of bounds")
         ELSE IF type_path.args[1].kind = "Type"
              THEN Vector(type_path.args[1].ty)
              ELSE Panic("unreachable")
    ELSE Panic("unreachable")

\* the "Option" arm of from_type
from_type_Option(type_path) ==
    IF type_path.arguments = "AngleBracketed"
    THEN Option_(type_path.args)
    ELSE Panic("unreachable")

\* FieldType::from_type
from_type(t) ==
    IF t.kind = "Path"
    THEN IF Len(t.segs) # 0
         THEN CASE t.segs[1] \in NumberNames -> Number
                [] t.segs[1] = "bool" -> Boolean
                [] t.segs[1] = "char" -> Character
                [] t.segs[1] = "String" -> String_
                [] t.segs[1] = "Vec" -> from_type_Vec(t)
                [] t.segs[1] = "Option" -> from_type_Option(t)
                [] OTHER -> Unhandled(<<t.segs[Len(t.segs)]>>)
         ELSE Unhandled(<<>>)
    ELSE IF t.kind = "Array"
         THEN Array(t)
         ELSE Unhandled(<<>>)

(***************************************************************************)
(* generate.rs: GetType and GetType::from_field_type                       *)
(***************************************************************************)
GetRef == [tag |-> "Ref"]
GetCopy_ == [tag |-> "Copy_"]
GetClone_ == [tag |-> "Clone_"]
GetString_ == [tag |-> "String_"]
GetSlice(elem) == [tag |-> "Slice", elem |-> elem]
GetOption_(args) == [tag |-> "Option_", inner |-> args]

RECURSIVE GetType_from_field_type(_)
\* the Option_ arm: collapses to Copy_ when the only argument is a type whose
\* own getter is Copy_; from_type of that argument may panic
GetType_from_Option(inner_type) ==
    IF Len(inner_type) = 1 /\ inner_type[1].kind = "Type"
    THEN LET inner_field_type == from_type(inner_type[1].ty)
         IN  IF IsPanic(inner_field_type)
             THEN inner_field_type
             ELSE LET inner_get == GetType_from_field_type(inner_field_type)
                  IN  IF IsPanic(inner_get)
                      THEN inner_get
                      ELSE IF inner_get.tag = "Copy_"
                           THEN GetCopy_
                           ELSE GetOption_(inner_type)
    ELSE GetOption_(inner_type)

GetType_from_field_type(field_type) ==
    CASE field_type.tag \in {"Number", "Boolean", "Character"} -> GetCopy_
      [] field_type.tag = "String_" -> GetString_
      [] field_type.tag = "Array" -> GetSlice(field_type.inner.elem)
      [] field_type.tag = "Vector" -> GetSlice(field_type.inner)
      [] field_type.tag = "Option_" -> GetType_from_Option(field_type.inner)
      [] field_type.tag = "Unhandled" -> GetRef

(***************************************************************************)
(* generate.rs: ClrMethod and ClrMethod::from_field_type                   *)
(***************************************************************************)
ClearableNames ==
    {"String", "PathBuf", "Vec", "VecDeque", "LinkedList", "HashMap",
     "BTreeMap", "HashSet", "BTreeSet", "BinaryHeap"}

\* mutant of ClrMethod_from_field_type: no unhandled type is cleared
ClrMethod_without_names(field_type) ==
    CASE field_type.tag = "Number" -> "SetZero"
      [] field_type.tag = "Option_" -> "SetNone"
      [] field_type.tag \in {"Boolean", "Character"} -> "SetDefault"
      [] field_type.tag \in {"String_", "Vector"} -> "CallClear"
      [] field_type.tag = "Array" -> "FillWithDefault"
      [] field_type.tag = "Unhandled" -> "None_"

ClrMethod_from_field_type(field_type) ==
    CASE field_type.tag = "Number" -> "SetZero"
      [] field_type.tag = "Option_" -> "SetNone"
      [] field_type.tag \in {"Boolean", "Character"} -> "SetDefault"
      [] field_type.tag \in {"String_", "Vector"} -> "CallClear"
      [] field_type.tag = "Array" -> "FillWithDefault"
      [] field_type.tag = "Unhandled" ->
            IF field_type.name # <<>> /\ field_type.name[1] \in ClearableNames
            THEN "CallClear"
            ELSE "None_"

(***************************************************************************)
(* The resolved configuration of a field (parse.rs: FieldDef, FieldConf).  *)
(***************************************************************************)
\* a disabled accessor and an enabled one: the private, crate and custom-path
\* visibilities differ from the public one in the emitted keyword only
Visibilities == {"Disable", "Public"}
GetTypeConfs == {"Auto", "Ref", "Copy_", "Clone_"}
SetTypeConfs == {"Ref", "Own", "None_", "Replace"}
ClrScopeConfs == {"Auto", "Option_", "All"}

\* VisibilityConf::to_ts: None (<<>>) for a disabled accessor
to_ts(vis) == IF vis = "Disable" THEN <<>> ELSE <<vis>>

(***************************************************************************)
(* lib.rs: derive_property_for_field, one accessor at a time.  Each        *)
(* returns the methods it pushes (<<>> or one descriptor) or a Panic.      *)
(***************************************************************************)
\* lib.rs 170-175: the getter shape chosen from get.typ
select_get_type(typ, prop_field_type) ==
    CASE typ = "Auto" -> GetType_from_field_type(prop_field_type)
      [] typ = "Ref" -> GetRef
      [] typ = "Copy_" -> GetCopy_
      [] typ = "Clone_" -> GetClone_

\* what an accessor block contributes: the methods pushed, or a Panic
Ok(methods) == [tag |-> "Ok", methods |-> methods]

get_method(field, prop_field_type) ==
    IF to_ts(field.conf.get.vis) = <<>>
    THEN Ok(<<>>)
    ELSE LET get_type == select_get_type(field.conf.get.typ, prop_field_type)
         IN  IF IsPanic(get_type)
             THEN get_type
             ELSE Ok(<<[kind |-> "get", field |-> field.ident,
                        vis |-> field.conf.get.vis, get_type |-> get_type]>>)

\* lib.rs 213-314: which of the three setter families is emitted
\*   "Vector" : val: impl IntoIterator<Item = T>, T: Into<inner_type>,
\*              field = val.into_iter().map(Into::into).collect()
\*   "Option_": val: T, T: Into<inner_type>, field = Some(val.into())
\*   "Default": val: T, T: Into<field_type>, field = val.into()
set_shape(field, prop_field_type) ==
    CASE prop_field_type.tag = "Vector" ->
            [shape |-> "Vector", into |-> <<ArgType(prop_field_type.inner)>>]
      [] prop_field_type.tag = "Option_" /\ ~field.conf.set.full_option ->
            [shape |-> "Option_", into |-> prop_field_type.inner]
      [] OTHER ->
            [shape |-> "Default", into |-> <<ArgType(field.ty)>>]

set_method(field, prop_field_type) ==
    IF to_ts(field.conf.set.vis) = <<>>
    THEN <<>>
    ELSE LET s == set_shape(field, prop_field_type)
         IN  <<[kind |-> "set", field |-> field.ident,
                vis |-> field.conf.set.vis, typ |-> field.conf.set.typ,
                shape |-> s.shape, into |-> s.into]>>

mut_method(field) ==
    IF to_ts(field.conf.mut_.vis) = <<>>
    THEN <<>>
    ELSE <<[kind |-> "mut", field |-> field.ident, vis |-> field.conf.mut_.vis]>>

\* mutant of select_clr_method: the scope is not applied
select_clr_method_ignoring_scope(scope, prop_field_type) ==
    ClrMethod_from_field_type(prop_field_type)

\* lib.rs 330-347: the clear method after the scope is applied
select_clr_method(scope, prop_field_type) ==
    LET auto_clr_method == ClrMethod_from_field_type(prop_field_type)
    IN  CASE scope = "Auto" -> auto_clr_method
          [] scope = "Option_" ->
                IF auto_clr_method = "SetNone" THEN auto_clr_method ELSE "None_"
          [] scope = "All" ->
                IF auto_clr_method = "None_" THEN "SetDefault" ELSE auto_clr_method

clr_method(field, prop_field_type) ==
    IF to_ts(field.conf.clr.vis) = <<>>
    THEN <<>>
    ELSE LET m == select_clr_method(field.conf.clr.scope, prop_field_type)
         IN  IF m = "None_"
             THEN <<>>
             ELSE <<[kind |-> "clr", field |-> field.ident,
                     vis |-> field.conf.clr.vis, clr_method |-> m]>>

derive_property_for_field(field) ==
    LET prop_field_type == from_type(field.ty)
    IN  IF IsPanic(prop_field_type)
        THEN prop_field_type
        ELSE LET g == get_method(field, prop_field_type)
             IN  IF IsPanic(g)
                 THEN g
                 ELSE Ok(g.methods \o set_method(field, prop_field_type)
                           \o mut_method(field)
                           \o clr_method(field, prop_field_type))

(***************************************************************************)
(* lib.rs: implement_traits                                                *)
(***************************************************************************)
\* ord.number is an Option<usize>: <<>> (None) or <<n>> (Some(n))
serial(f) == f.conf.ord.number[1]

\* x placed behind every element whose serial number is not greater: the
\* position a stable sort gives the element that came last
insert_sorted(x, s) ==
    LET k == Cardinality({i \in 1..Len(s) : serial(s[i]) <= serial(x)})
    IN  SubSeq(s, 1, k) \o <<x>> \o SubSeq(s, k + 1, Len(s))

\* mutant of sort_by: the fields stay in declaration order
sort_by_declaration_order(s) == s

\* ordered.sort_by(|f1, f2| n1.cmp(&n2)): a stable sort by serial number
RECURSIVE sort_by(_)
sort_by(s) ==
    IF Len(s) = 0
    THEN s
    ELSE insert_sorted(s[Len(s)], sort_by(SubSeq(s, 1, Len(s) - 1)))

\* ordered.windows(2).any(|f| n1 == n2)
has_same_serial_number(ordered) ==
    \E i \in 1..(Len(ordered) - 1) : serial(ordered[i]) = serial(ordered[i + 1])

\* mutant of partial_eq_stmt: the skipped fields are left out of the equality
partial_eq_stmt_without_skipped(ordered) ==
    LET kept == SelectSeq(ordered, LAMBDA f : ~f.conf.skip)
    IN  [i \in 1..Len(kept) |-> kept[i].ident]

\* self.f == other.f, joined by &&, in the order of `ordered`
partial_eq_stmt(ordered) == [i \in 1..Len(ordered) |-> ordered[i].ident]

\* per field: let result = self.f.partial_cmp(&other.f) (ascending) or
\* other.f.partial_cmp(&self.f) (descending); if result != Some(Equal) return
partial_ord_stmt(ordered) ==
    [i \in 1..Len(ordered) |->
        [field |-> ordered[i].ident,
         swapped |-> ~(ordered[i].conf.ord.sort_type = "Ascending")]]

implement_traits(property) ==
    LET selected == SelectSeq(property.fields, LAMBDA f : f.conf.ord.number # <<>>)
    IN  IF Len(selected) = 0
        THEN [tag |-> "None"]
        ELSE LET ordered == sort_by(selected)
             IN  IF has_same_serial_number(ordered)
                 THEN Panic("there are at least two fields that have same serial number")
                 ELSE [tag |-> "Some",
                       partial_eq |-> partial_eq_stmt(ordered),
                       partial_ord |-> partial_ord_stmt(ordered)]

(***************************************************************************)
(* lib.rs: derive_property                                                 *)
(***************************************************************************)
\* the fold over property.fields: a skipped field contributes nothing and is
\* not even classified; the first panic ends the expansion
RECURSIVE fold_methods(_, _)
fold_methods(fields, r) ==
    IF Len(fields) = 0
    THEN Ok(r)
    ELSE IF fields[1].conf.skip
         THEN fold_methods(Tail(fields), r)
         ELSE LET m == derive_property_for_field(fields[1])
              IN  IF IsPanic(m)
                  THEN m
                  ELSE fold_methods(Tail(fields), r \o m.methods)

\* the expansion: a Panic (nothing is emitted), or the impl block with the
\* methods and, when implement_traits returns Some, the PartialEq /
\* PartialOrd impls behind it
derive_property(property) ==
    LET methods == fold_methods(property.fields, <<>>)
    IN  IF IsPanic(methods)
        THEN methods
        ELSE LET impl_traits == implement_traits(property)
             IN  IF IsPanic(impl_traits)
                 THEN impl_traits
                 ELSE [tag |-> "Tokens",
                       impl_methods |-> methods.methods,
                       impl_traits |-> impl_traits]

(***************************************************************************)
(* What the emitted PartialEq / PartialOrd impls compute (lib.rs 145-156). *)
(* Field values are "a" < "b", "nan", which compares with nothing and is   *)
(* equal to nothing, and "odd", a value of a type whose == is reflexive    *)
(* but whose hand-written partial_cmp returns None.                        *)
(***************************************************************************)
Values == {"a", "b", "nan", "odd"}

\* x.partial_cmp(&y) of a field: an Option<Ordering>
field_partial_cmp(x, y) ==
    CASE x \in {"nan", "odd"} \/ y \in {"nan", "odd"} -> "None"
      [] x = y -> "Equal"
      [] x = "a" /\ y = "b" -> "Less"
      [] OTHER -> "Greater"

\* x == y of a field
field_eq(x, y) == x # "nan" /\ y # "nan" /\ x = y

\* fn partial_cmp(&self, other): the statements in order, then Some(Equal)
RECURSIVE partial_cmp(_, _, _)
partial_cmp(stmts, a, b) ==
    IF Len(stmts) = 0
    THEN "Equal"
    ELSE LET st == stmts[1]
             result == IF st.swapped
                       THEN field_partial_cmp(b[st.field], a[st.field])
                       ELSE field_partial_cmp(a[st.field], b[st.field])
         IN  IF result # "Equal"
             THEN result
             ELSE partial_cmp(Tail(stmts), a, b)

\* fn eq(&self, other): the conjunction of the field equalities
eq(stmts, a, b) == \A i \in 1..Len(stmts) : field_eq(a[stmts[i]], b[stmts[i]])

(***************************************************************************)
(* The type expressions the classifier is run on.                          *)
(***************************************************************************)
Idents == {"u32", "f64", "bool", "char", "String", "Vec", "Option", "HashMap", "Foo"}
GenericIdents == {"Vec", "Option", "HashMap", "Foo"}

LeafTypes ==
    {PathNone(<<i>>) : i \in Idents}
        \cup {PathNone(<<"std", i>>) : i \in {"String", "Vec", "Option", "Foo"}}
        \cup {PathParen(<<i>>) : i \in GenericIdents}
        \cup {PathNone(<<>>), TypeOther}

GenericArguments(T) == {ArgType(t) : t \in T} \cup {ArgLifetime, ArgConst}

ArgLists(T) == UNION {[1..n -> GenericArguments(T)] : n \in 0..MaxArgs}

\* one more level of nesting over the types T
Nest(T) ==
    {PathAngle(<<i>>, a) : i \in GenericIdents, a \in ArgLists(T)}
        \cup {PathAngle(<<"std", i>>, <<>>) : i \in {"Vec", "Option"}}
        \cup {TypeArray(t) : t \in T}

\* a second level, one type argument only
Nest1(T) ==
    {PathAngle(<<i>>, <<ArgType(t)>>) : i \in {"Vec", "Option"}, t \in T}

\* the type expressions of up to two levels of nesting over the leaves T
TypesOver(T) == T \cup Nest(T) \cup Nest1(Nest(T))

(***************************************************************************)
(* The records derive_property is run on.  A field's ident is its          *)
(* position in the declaration.                                            *)
(***************************************************************************)
NoOrd == [number |-> <<>>, sort_type |-> "Ascending"]
OrdConfs ==
    {NoOrd} \cup [number : {<<n>> : n \in 1..MaxSerial},
                  sort_type : {"Ascending", "Descending"}]

FieldConfs ==
    [get : [vis : Visibilities, typ : GetTypeConfs],
     set : [vis : Visibilities, typ : SetTypeConfs, full_option : BOOLEAN],
     mut_ : [vis : Visibilities],
     clr : [vis : Visibilities, scope : ClrScopeConfs],
     skip : BOOLEAN,
     ord : {NoOrd}]

\* every accessor public, every mode the crate's default
PublicConf(skip, ord) ==
    [get |-> [vis |-> "Public", typ |-> "Auto"],
     set |-> [vis |-> "Public", typ |-> "Ref", full_option |-> FALSE],
     mut_ |-> [vis |-> "Public"],
     clr |-> [vis |-> "Public", scope |-> "Option_"],
     skip |-> skip,
     ord |-> ord]

FieldDef(ident, t, conf) == [ident |-> ident, ty |-> t, conf |-> conf]

\* the types of the fields: every leaf, Vec<..> and Option<..> over argument
\* lists of a copyable, a non-copyable and a non-classifiable type and a
\* lifetime, and a second level of Option<..>
FieldArguments ==
    {ArgType(PathNone(<<"u32">>)), ArgType(PathNone(<<"String">>)),
     ArgType(PathNone(<<"Vec">>)), ArgLifetime}

FieldArgLists == UNION {[1..n -> FieldArguments] : n \in 0..MaxArgs}

FieldTypes1(lists) ==
    {PathAngle(<<i>>, a) : i \in {"Vec", "Option"}, a \in lists}
        \cup {PathAngle(<<"HashMap">>, <<ArgType(PathNone(<<"u32">>)),
                                         ArgType(PathNone(<<"u32">>))>>),
              TypeArray(PathNone(<<"u32">>))}

FieldTypes(lists) ==
    LeafTypes \cup FieldTypes1(lists)
        \cup {PathAngle(<<"Option">>, <<ArgType(t)>>) :
                t \in {u \in FieldTypes1(lists) : u.kind = "Array" \/ Len(u.args) <= 1}}

Container(fields) == [name |-> "S", fields |-> fields]

\* records of up to MaxFields fields that may carry serial numbers; a field
\* is a u32, a skipped u32 or a bare `Vec`, with every accessor public
OrdFieldKinds ==
    {[ty |-> PathNone(<<"u32">>), skip |-> FALSE],
     [ty |-> PathNone(<<"u32">>), skip |-> TRUE],
     [ty |-> PathNone(<<"Vec">>), skip |-> FALSE]}

\* the fields of such a record, from the kind and the ord of each position
OrdFields(choice) ==
    [i \in 1..Len(choice) |->
        FieldDef(i, choice[i].kind.ty, PublicConf(choice[i].kind.skip, choice[i].ord))]

(***************************************************************************)
(* Spec: #[derive(Property)] expanded on one record: a record of one field *)
(* over every field type and configuration, or a record of up to MaxFields *)
(* fields with serial numbers.                                             *)
(***************************************************************************)
Init ==
    /\ \/ \E t \in FieldTypes(FieldArgLists), c \in FieldConfs :
              input = Container(<<FieldDef(1, t, c)>>)
       \/ \E n \in 1..MaxFields :
              \E choice \in [1..n -> [kind : OrdFieldKinds, ord : OrdConfs]] :
                  input = Container(OrdFields(choice))
    /\ expanded = Pending
    /\ ty = TypeOther
    /\ category = Pending
    /\ default_conf = Pending
    /\ self_ = <<>>
    /\ call = Pending
    /\ ret = Pending

DeriveProperty ==
    /\ expanded = Pending
    /\ expanded' = derive_property(input)
    /\ UNCHANGED <<ty, category, input, default_conf, self_, call, ret>>

Next == DeriveProperty

Spec == Init /\ [][Next]_vars

(***************************************************************************)
(* SpecTraits: #[derive(Property)] expanded on a record of up to MaxFields *)
(* fields, each with or without a serial number: a field with public       *)
(* accessors, a skipped field (of a type the classifier is never run on)   *)
(* or a field with every accessor disabled.                                *)
(***************************************************************************)
TraitFieldKinds ==
    {[ty |-> PathNone(<<"u32">>), skip |-> FALSE, vis |-> "Public"],
     [ty |-> PathNone(<<"Vec">>), skip |-> TRUE, vis |-> "Public"],
     [ty |-> PathNone(<<"f64">>), skip |-> FALSE, vis |-> "Disable"]}

\* the configuration of such a field: the crate's default modes, one
\* visibility for the four accessors
TraitConf(kind, ord) ==
    [get |-> [vis |-> kind.vis, typ |-> "Auto"],
     set |-> [vis |-> kind.vis, typ |-> "Ref", full_option |-> FALSE],
     mut_ |-> [vis |-> kind.vis],
     clr |-> [vis |-> kind.vis, scope |-> "Option_"],
     skip |-> kind.skip,
     ord |-> ord]

TraitFields(choice) ==
    [i \in 1..Len(choice) |->
        FieldDef(i, choice[i].kind.ty, TraitConf(choice[i].kind, choice[i].ord))]

InitTraits ==
    /\ \E n \in 1..MaxFields :
           \E choice \in [1..n -> [kind : TraitFieldKinds, ord : OrdConfs]] :
               input = Container(TraitFields(choice))
    /\ expanded = Pending
    /\ ty = TypeOther
    /\ category = Pending
    /\ default_conf = Pending
    /\ self_ = <<>>
    /\ call = Pending
    /\ ret = Pending

SpecTraits == InitTraits /\ [][Next]_vars

(***************************************************************************)
(* SpecClassify: the classifier applied to one type expression.            *)
(***************************************************************************)
InitClassify ==
    /\ ty \in TypesOver(LeafTypes)
    /\ category = Pending
    /\ input = Pending
    /\ expanded = Pending
    /\ default_conf = Pending
    /\ self_ = <<>>
    /\ call = Pending
    /\ ret = Pending

Classify ==
    /\ category = Pending
    /\ category' = from_type(ty)
    /\ UNCHANGED <<ty, input, expanded, default_conf, self_, call, ret>>

NextClassify == Classify

SpecClassify == InitClassify /\ [][NextClassify]_vars

(***************************************************************************)
(* What an emitted setter does when it is called (lib.rs 215-313).         *)
(***************************************************************************)
\* Into::into on one value: the converted value is not the value given
Into(x) == x + 10

\* the value assigned to the field
set_value(m, val) ==
    CASE m.shape = "Vector" -> [i \in 1..Len(val) |-> Into(val[i])]
      [] m.shape = "Option_" -> <<Into(val)>>
      [] m.shape = "Default" -> Into(val)

\* what the setter returns: &mut Self, the record itself, nothing, or the
\* value the field held (mem::replace / Option::replace)
set_returned(m, old, new) ==
    CASE m.typ = "Ref" -> [kind |-> "MutSelf"]
      [] m.typ = "Own" -> [kind |-> "Self", field |-> new]
      [] m.typ = "None_" -> [kind |-> "Unit"]
      [] m.typ = "Replace" -> [kind |-> "Value", value |-> old]

\* mutant of exec_set: the setter of a growable list appends
exec_set_appending(m, old, val) ==
    LET new == IF m.shape = "Vector" THEN old \o set_value(m, val) ELSE set_value(m, val)
    IN  [field |-> new, ret |-> set_returned(m, old, new)]

\* one call of setter m on a field holding old
exec_set(m, old, val) ==
    LET new == set_value(m, val)
    IN  [field |-> new, ret |-> set_returned(m, old, new)]

(***************************************************************************)
(* SpecSet: a record with one growable-list field is expanded, and its     *)
(* setter is called on an instance any number of times.                    *)
(***************************************************************************)
RECURSIVE SeqsUpTo(_, _)
SeqsUpTo(S, n) == IF n = 0 THEN {<<>>} ELSE SeqsUpTo(S, n - 1) \cup [1..n -> S]

\* the items handed to the setter, and what a list may hold before any call
SetterItems == {1, 2}
Elements == {Into(x) : x \in SetterItems}

VecConf(set_typ, full_option) ==
    [get |-> [vis |-> "Public", typ |-> "Auto"],
     set |-> [vis |-> "Public", typ |-> set_typ, full_option |-> full_option],
     mut_ |-> [vis |-> "Public"],
     clr |-> [vis |-> "Public", scope |-> "Option_"],
     skip |-> FALSE,
     ord |-> NoOrd]

InitSet ==
    /\ \E e \in {"u32", "String"}, set_typ \in SetTypeConfs, full_option \in BOOLEAN :
          input = Container(<<FieldDef(1, PathAngle(<<"Vec">>, <<ArgType(PathNone(<<e>>))>>),
                                       VecConf(set_typ, full_option))>>)
    /\ expanded = Pending
    /\ self_ \in [1..1 -> SeqsUpTo(Elements, MaxLen)]
    /\ call = Pending
    /\ ret = Pending
    /\ ty = TypeOther
    /\ category = Pending
    /\ default_conf = Pending

\* the setter emitted for field i
setter(i) ==
    SelectSeq(expanded.impl_methods, LAMBDA m : m.kind = "set" /\ m.field = i)

CallSet(val) ==
    /\ expanded.tag = "Tokens"
    /\ Len(setter(1)) = 1
    /\ LET r == exec_set(setter(1)[1], self_[1], val)
       IN  /\ self_' = [self_ EXCEPT ![1] = r.field]
           /\ ret' = r.ret
           /\ call' = [tag |-> "Called", val |-> val, before |-> self_[1]]
    /\ UNCHANGED <<ty, category, input, expanded, default_conf>>

NextSet ==
    \/ DeriveProperty
    \/ \E val \in SeqsUpTo(SetterItems, MaxLen) : CallSet(val)

SpecSet == InitSet /\ [][NextSet]_vars

(***************************************************************************)
(* lib.rs: property_default                                                *)
(***************************************************************************)
\* the item the attribute sits on, as syn parses it: a struct with its
\* attributes, fields, semicolon and generics, another kind of item, or
\* tokens that are no item at all
StructItems ==
    {it \in [kind : {"Struct"},
             attrs : 0..1,
             fields : {"Unit", "Named", "Unnamed"},
             nfields : 0..1,
             semi_token : BOOLEAN,
             lt_token : BOOLEAN,
             gt_token : BOOLEAN,
             params : 0..1,
             where_clause : BOOLEAN] :
        /\ it.semi_token = (it.fields # "Named")
        /\ it.fields = "Unit" => it.nfields = 0
        /\ it.lt_token = it.gt_token
        /\ it.params > 0 => it.lt_token}

SynItems == StructItems \cup {[kind |-> k] : k \in {"Enum", "Fn", "NotAnItem"}}

\* the macro's arguments: a CrateConfDef, or tokens that are none
CrateConfs ==
    [tag : {"Conf"}, get_vis : Visibilities, clr_scope : ClrScopeConfs]
Attrs == CrateConfs \cup {[tag |-> "NotAConf"]}

\* mutant of raise_error: generics are not looked at
raise_error_ignoring_generics(item) ==
    IF item.kind = "Struct"
    THEN \/ item.attrs # 0
         \/ ~item.semi_token
         \/ item.fields # "Unit"
    ELSE TRUE

\* lib.rs 47-57
raise_error(item) ==
    IF item.kind = "Struct"
    THEN \/ item.attrs # 0
         \/ ~item.semi_token
         \/ item.fields # "Unit"
         \/ item.lt_token
         \/ item.gt_token
         \/ item.params # 0
         \/ item.where_clause
    ELSE TRUE

CompileError(msg) == [tag |-> "CompileError", msg |-> msg]

\* CrateConfDef::set_default_conf: the configuration becomes the default
set_default_conf(property) == property

\* the expansion and the default configuration after it
property_default(attr, item, default) ==
    IF item.kind = "NotAnItem"
    THEN [expanded |-> CompileError("parse item"), default_conf |-> default]
    ELSE IF raise_error(item)
         THEN [expanded |-> CompileError("Please using a simple unit struct"),
               default_conf |-> default]
         ELSE IF attr.tag # "Conf"
              THEN [expanded |-> CompileError("parse attributes"),
                    default_conf |-> default]
              ELSE [expanded |-> [tag |-> "Empty"],
                    default_conf |-> set_default_conf(attr)]

(***************************************************************************)
(* SpecDefault: #[property_default(..)] invoked any number of times.       *)
(***************************************************************************)
InitDefault ==
    /\ default_conf = Pending
    /\ input = Pending
    /\ expanded = Pending
    /\ ty = TypeOther
    /\ category = Pending
    /\ self_ = <<>>
    /\ call = Pending
    /\ ret = Pending

PropertyDefault(attr, item) ==
    LET r == property_default(attr, item, default_conf)
    IN  /\ input' = [tag |-> "Invocation", attr |-> attr, item |-> item]
        /\ expanded' = r.expanded
        /\ default_conf' = r.default_conf
        /\ UNCHANGED <<ty, category, self_, call, ret>>

NextDefault == \E attr \in Attrs, item \in SynItems : PropertyDefault(attr, item)

SpecDefault == InitDefault /\ [][NextDefault]_vars

(***************************************************************************)
(* Vocabulary of the properties.                                           *)
(***************************************************************************)
DuplicateSerialMsg == "there are at least two fields that have same serial number"

NFields == Len(input.fields)
\* the field of a one-field record
F == input.fields[1]
Derived == expanded.tag # "Pending"
Emitted == expanded.tag = "Tokens"

Selected(c) == {i \in 1..Len(c.fields) : c.fields[i].conf.ord.number # <<>>}
HasDuplicateSerial(c) ==
    \E i \in Selected(c), j \in Selected(c) :
        i # j /\ serial(c.fields[i]) = serial(c.fields[j])

\* the values two instances hold in one field: equal, less, greater, and
\* uncomparable from either side
ComparedPairs ==
    {<<"a", "a">>, <<"a", "b">>, <<"b", "a">>, <<"nan", "a">>, <<"a", "nan">>}
\* pairs of instances of a record of n fields, as one value pair per field
InstancePairs(n) == [1..n -> ComparedPairs]
Left(pairs) == [i \in DOMAIN pairs |-> pairs[i][1]]
Right(pairs) == [i \in DOMAIN pairs |-> pairs[i][2]]

\* the comparison of field i of record c on instances a and b, with the
\* operands swapped for a descending field
FieldCmp(c, i, a, b) ==
    IF c.fields[i].conf.ord.sort_type = "Descending"
    THEN field_partial_cmp(b[i], a[i])
    ELSE field_partial_cmp(a[i], b[i])

\* the result of the selected field of least serial number whose comparison
\* is not Equal; Equal when there is none
LexBySerial(c, a, b) ==
    LET unequal == {i \in Selected(c) : FieldCmp(c, i, a, b) # "Equal"}
    IN  IF unequal = {}
        THEN "Equal"
        ELSE FieldCmp(c,
                      CHOOSE i \in unequal :
                          \A j \in unequal : serial(c.fields[i]) <= serial(c.fields[j]),
                      a, b)

\* C1: for a record with at least one serial number and pairwise distinct
\* serial numbers, the emitted partial_cmp returns, on every pair of
\* instances, the (direction-adjusted) comparison of the selected field of
\* least serial number that does not compare Equal, and Equal only when every
\* selected field compares Equal.
C1_OrderingBySerial ==
    (Emitted /\ Selected(input) # {} /\ ~HasDuplicateSerial(input)) =>
        /\ expanded.impl_traits.tag = "Some"
        /\ \A p \in InstancePairs(NFields) :
              partial_cmp(expanded.impl_traits.partial_ord, Left(p), Right(p))
                  = LexBySerial(input, Left(p), Right(p))

\* C1 witness: the record declared (2 descending, 1 ascending, 3 ascending)
\* is expanded to the statements serial 1, serial 2 swapped, serial 3.
C1_Witness ==
    /\ Emitted
    /\ NFields = 3
    /\ input.fields[1].conf.ord = [number |-> <<2>>, sort_type |-> "Descending"]
    /\ input.fields[2].conf.ord = [number |-> <<1>>, sort_type |-> "Ascending"]
    /\ input.fields[3].conf.ord = [number |-> <<3>>, sort_type |-> "Ascending"]
    /\ expanded.impl_traits.tag = "Some"
    /\ expanded.impl_traits.partial_ord
         = <<[field |-> 2, swapped |-> FALSE],
             [field |-> 1, swapped |-> TRUE],
             [field |-> 3, swapped |-> FALSE]>>

\* C2: the expansion aborts with the duplicate-serial panic if and only if
\* two fields that carry a serial number share it (and an aborted expansion
\* emits nothing: a Panic carries no tokens).
C2_AbortIffDuplicateSerial ==
    Derived =>
        ((expanded.tag = "Panic" /\ expanded.msg = DuplicateSerialMsg)
            <=> HasDuplicateSerial(input))

\* C2, apart from the classifier's panics (C5): when no field's
\* classification panics, the expansion aborts exactly on a duplicate serial
\* number, with the duplicate-serial message.
C2_ExceptClassifierPanic ==
    (Derived /\ ~IsPanic(fold_methods(input.fields, <<>>))) =>
        /\ (expanded.tag = "Panic") <=> HasDuplicateSerial(input)
        /\ expanded.tag = "Panic" => expanded.msg = DuplicateSerialMsg

Kinds(methods) == [i \in 1..Len(methods) |-> methods[i].kind]
MethodsOfKind(kind) == SelectSeq(expanded.impl_methods, LAMBDA m : m.kind = kind)
If(cond, x) == IF cond THEN <<x>> ELSE <<>>

\* the accessors of field f whose visibility is not disabled, in the order
\* get, set, mutable-view, clear, without clear when its strategy is None_
ExpectedKinds(f) ==
    IF f.conf.skip
    THEN <<>>
    ELSE If(f.conf.get.vis # "Disable", "get")
           \o If(f.conf.set.vis # "Disable", "set")
           \o If(f.conf.mut_.vis # "Disable", "mut")
           \o If(f.conf.clr.vis # "Disable"
                   /\ select_clr_method(f.conf.clr.scope, from_type(f.ty)) # "None_",
                 "clr")

\* C3: for every field and configuration the expansion yields the method
\* list: empty under skip, else the enabled accessors in the order get, set,
\* mutable-view, clear, without clear when its strategy is Unsupported.
C3_MethodList ==
    (Derived /\ NFields = 1) =>
        /\ Emitted
        /\ Kinds(expanded.impl_methods) = ExpectedKinds(F)

\* C3, apart from the classifier's panics (C5): whenever the expansion emits
\* methods for the field, they are that list.
C3_ExceptClassifierPanic ==
    (Emitted /\ NFields = 1) => Kinds(expanded.impl_methods) = ExpectedKinds(F)

\* the field is an Option<..> whose setter is emitted
OptionalSetterEmitted ==
    /\ Emitted
    /\ NFields = 1
    /\ ~F.conf.skip
    /\ F.conf.set.vis # "Disable"
    /\ from_type(F.ty).tag = "Option_"

\* C4: the setter of an Optional field wraps (accepts Into<argument>, assigns
\* Some(..)) exactly when full_option is false and the wrapper has exactly
\* one argument; otherwise it is the default setter over the declared type.
C4_WrappingSetter ==
    OptionalSetterEmitted =>
        LET m == MethodsOfKind("set")[1]
            args == from_type(F.ty).inner
            wraps == ~F.conf.set.full_option /\ Len(args) = 1
        IN  /\ m.typ = F.conf.set.typ
            /\ wraps => m.shape = "Option_" /\ m.into = args
            /\ ~wraps => m.shape = "Default" /\ m.into = <<ArgType(F.ty)>>

\* what the code does instead: the argument count is never looked at
C4_WrapsWheneverNotFullOption ==
    OptionalSetterEmitted =>
        LET m == MethodsOfKind("set")[1]
            args == from_type(F.ty).inner
        IN  /\ m.typ = F.conf.set.typ
            /\ ~F.conf.set.full_option => m.shape = "Option_" /\ m.into = args
            /\ F.conf.set.full_option =>
                  m.shape = "Default" /\ m.into = <<ArgType(F.ty)>>

CategoryTags ==
    {"Number", "Boolean", "Character", "String_", "Array", "Vector", "Option_",
     "Unhandled"}

\* C5: the classifier returns a category for every type expression.
C5_ClassifierTotal == category.tag \in CategoryTags \cup {"Pending"}

\* where the classifier does fail: `Vec` whose first segment has no
\* angle-bracketed type as first argument, `Option` without angle brackets
C5_PanicsExactlyOn ==
    category.tag # "Pending" =>
        (category.tag = "Panic" <=>
            /\ ty.kind = "Path"
            /\ Len(ty.segs) # 0
            /\ \/ /\ ty.segs[1] = "Vec"
                  /\ \/ ty.arguments # "AngleBracketed"
                     \/ Len(ty.args) = 0
                     \/ ty.args[1].kind # "Type"
               \/ ty.segs[1] = "Option" /\ ty.arguments # "AngleBracketed")

\* the field is an Option<..> whose getter is asked for
OptionalGetterAsked ==
    /\ Derived
    /\ NFields = 1
    /\ ~F.conf.skip
    /\ F.conf.get.vis # "Disable"
    /\ from_type(F.ty).tag = "Option_"

\* a type selects the by-copy getter under auto mode: Number, Boolean,
\* Character, or an Optional that collapses
RECURSIVE SelectsCopy(_)
Collapses(args) ==
    Len(args) = 1 /\ args[1].kind = "Type" /\ SelectsCopy(args[1].ty)
SelectsCopy(t) ==
    LET c == from_type(t)
    IN  \/ c.tag \in {"Number", "Boolean", "Character"}
        \/ c.tag = "Option_" /\ Collapses(c.inner)

\* the getter the claim expects of an Optional field with arguments args
ExpectedOptionalGetter(typ, args) ==
    CASE typ = "Auto" -> IF Collapses(args) THEN GetCopy_ ELSE GetOption_(args)
      [] typ = "Ref" -> GetRef
      [] typ = "Copy_" -> GetCopy_
      [] typ = "Clone_" -> GetClone_

\* C6: under auto get-mode an Optional field gets the by-copy getter exactly
\* when its only argument is a type that itself selects by-copy, and in every
\* other case the Option_ getter over the full argument list; an explicit
\* get-mode decides the getter alone.
C6_OptionalGetter ==
    OptionalGetterAsked =>
        /\ Emitted
        /\ LET m == MethodsOfKind("get")[1]
               want == ExpectedOptionalGetter(F.conf.get.typ, from_type(F.ty).inner)
           IN  /\ m.get_type.tag = want.tag
               /\ m.get_type = want

\* C6, apart from the classifier's panics (C5): whenever the getter is
\* emitted it is the expected one.
C6_ExceptClassifierPanic ==
    (OptionalGetterAsked /\ Emitted) =>
        LET m == MethodsOfKind("get")[1]
            want == ExpectedOptionalGetter(F.conf.get.typ, from_type(F.ty).inner)
        IN  /\ m.get_type.tag = want.tag
            /\ m.get_type = want

\* the clear accessor of the field is asked for and the expansion succeeded
ClearAsked ==
    /\ Emitted
    /\ NFields = 1
    /\ ~F.conf.skip
    /\ F.conf.clr.vis # "Disable"

\* the effective strategy the claim states, from the natural one
ExpectedClr(scope, natural) ==
    CASE scope = "Auto" -> natural
      [] scope = "Option_" -> IF natural = "SetNone" THEN "SetNone" ELSE "None_"
      [] scope = "All" -> IF natural = "None_" THEN "SetDefault" ELSE natural

\* C7: the clear method emitted follows the effective strategy: the natural
\* one under auto; SetNone or nothing under optional-only, so only Optional
\* fields get a clear method; under all the natural one with None_ upgraded
\* to SetDefault, so a clear method is always emitted.
C7_EffectiveClear ==
    ClearAsked =>
        LET cat == from_type(F.ty)
            want == ExpectedClr(F.conf.clr.scope, ClrMethod_from_field_type(cat))
            clrs == MethodsOfKind("clr")
        IN  /\ want = "None_" => Len(clrs) = 0
            /\ want # "None_" => Len(clrs) = 1 /\ clrs[1].clr_method = want
            /\ F.conf.clr.scope = "Option_" => (Len(clrs) = 1 <=> cat.tag = "Option_")
            /\ F.conf.clr.scope = "All" => Len(clrs) = 1

\* C7 witness: under scope all a field of no natural strategy gets SetDefault
C7_Witness ==
    /\ ClearAsked
    /\ F.conf.clr.scope = "All"
    /\ ClrMethod_from_field_type(from_type(F.ty)) = "None_"
    /\ Len(MethodsOfKind("clr")) = 1
    /\ MethodsOfKind("clr")[1].clr_method = "SetDefault"

\* what is told of a method: its kind and the strategy it was built from
Shape(m) ==
    CASE m.kind = "get" -> <<"get", m.get_type.tag>>
      [] m.kind = "set" -> <<"set", m.shape, m.into>>
      [] m.kind = "mut" -> <<"mut">>
      [] m.kind = "clr" -> <<"clr", m.clr_method>>
Shapes(methods) == [i \in 1..Len(methods) |-> Shape(methods[i])]

\* a field of an unhandled type, expanded under auto get-mode
UnhandledExpanded ==
    /\ Derived
    /\ NFields = 1
    /\ ~F.conf.skip
    /\ F.conf.get.typ = "Auto"
    /\ from_type(F.ty).tag = "Unhandled"

\* getter by reference, default setter over the declared type, mutable view
UnhandledGetSetMut ==
    If(F.conf.get.vis # "Disable", <<"get", "Ref">>)
        \o If(F.conf.set.vis # "Disable", <<"set", "Default", <<ArgType(F.ty)>>>>)
        \o If(F.conf.mut_.vis # "Disable", <<"mut">>)

\* C8 as stated: a field of an unhandled type gets the by-reference getter,
\* the default setter, the mutable view and no clear method.
C8_UnhandledNoClear ==
    UnhandledExpanded =>
        /\ Emitted
        /\ Shapes(expanded.impl_methods) = UnhandledGetSetMut

\* the clear strategy of an unhandled type named `name` (<<>>: no name)
UnhandledClear(scope, name) ==
    LET listed == name # <<>> /\ name[1] \in ClearableNames
    IN  CASE scope = "Auto" -> IF listed THEN "CallClear" ELSE "None_"
          [] scope = "Option_" -> "None_"
          [] scope = "All" -> IF listed THEN "CallClear" ELSE "SetDefault"

\* C8 amended: ... and a clear method calling clear() when the type's last
\* identifier is a listed collection name and the scope is auto or all,
\* a clear method assigning the default when it is not listed and the scope
\* is all, and no clear method otherwise.
C8_UnhandledMethods ==
    UnhandledExpanded =>
        /\ Emitted
        /\ LET c == UnhandledClear(F.conf.clr.scope, from_type(F.ty).name)
           IN  Shapes(expanded.impl_methods)
                  = UnhandledGetSetMut
                      \o If(F.conf.clr.vis # "Disable" /\ c # "None_", <<"clr", c>>)

\* C8 witness: HashMap<u32, u32> with every accessor public and scope auto:
\* four methods, the last one calling clear()
C8_Witness ==
    /\ UnhandledExpanded
    /\ Emitted
    /\ from_type(F.ty).name = <<"HashMap">>
    /\ F.conf.clr.scope = "Auto"
    /\ Len(expanded.impl_methods) = 4
    /\ Shape(expanded.impl_methods[4]) = <<"clr", "CallClear">>

\* the input of a setter call, converted item by item, in input order
Converted(val) == [i \in 1..Len(val) |-> Into(val[i])]

\* C9: after a call of the setter of a growable-list field the field holds
\* exactly the converted input in input order, whatever it held before; a
\* second call with the same input leaves it as the first did; in replace
\* mode the call returns what the field held before; the setter takes items
\* convertible to the element type, in each of the four set modes.
C9_SetterReplacesContents ==
    call.tag = "Called" =>
        LET m == setter(1)[1]
        IN  /\ m.shape = "Vector"
            /\ m.into = <<F.ty.args[1]>>
            /\ m.typ = F.conf.set.typ
            /\ self_[1] = Converted(call.val)
            /\ exec_set(m, self_[1], call.val).field = self_[1]
            /\ m.typ = "Replace" => ret = [kind |-> "Value", value |-> call.before]

\* C9 witness: a replace-mode setter called with two items on a non-empty
\* list returned the former contents, which the field no longer holds
C9_Witness ==
    /\ call.tag = "Called"
    /\ F.conf.set.typ = "Replace"
    /\ Len(call.val) = 2
    /\ Len(call.before) > 0
    /\ ret = [kind |-> "Value", value |-> call.before]
    /\ self_[1] = Converted(call.val)
    /\ self_[1] # call.before

\* the declarations the claim has rejected
Rejectable(item) ==
    \/ item.kind # "Struct"
    \/ item.attrs > 0
    \/ item.params > 0
    \/ item.where_clause
    \/ item.nfields > 0

\* an empty unit struct: `struct Name;`
Placeholder(item) ==
    /\ item.kind = "Struct"
    /\ item.attrs = 0
    /\ item.fields = "Unit"
    /\ item.nfields = 0
    /\ ~item.lt_token /\ ~item.gt_token /\ item.params = 0 /\ ~item.where_clause

\* C10: an invocation on a declaration with attributes, generics or fields,
\* or on no struct, returns a diagnostic and leaves the default
\* configuration as it was; set_default_conf is reached only by an invocation
\* on an empty unit struct.
C10_RejectsNonPlaceholder ==
    [][/\ Rejectable(input'.item) =>
            expanded'.tag = "CompileError" /\ default_conf' = default_conf
       /\ expanded'.tag = "Empty" =>
            Placeholder(input'.item) /\ default_conf' = input'.attr
       /\ expanded'.tag # "Empty" => default_conf' = default_conf]_vars

\* C10 witness: with a default configuration set, an invocation on a generic
\* struct was rejected and the configuration is still set
C10_Witness ==
    /\ input.tag = "Invocation"
    /\ input.item.kind = "Struct"
    /\ input.item.params > 0
    /\ input.attr.tag = "Conf"
    /\ expanded.tag = "CompileError"
    /\ default_conf.tag = "Conf"
    /\ default_conf # input.attr

(***************************************************************************)
(* Consistency of the emitted equality and ordering.                       *)
(***************************************************************************)
TraitsEmitted == Emitted /\ expanded.impl_traits.tag = "Some"

\* the fields the emitted eq and the emitted partial_cmp read
EqFields ==
    {expanded.impl_traits.partial_eq[i] :
        i \in 1..Len(expanded.impl_traits.partial_eq)}
CmpFields ==
    {expanded.impl_traits.partial_ord[i].field :
        i \in 1..Len(expanded.impl_traits.partial_ord)}

\* the values two instances hold in one field that carries a serial number:
\* equal, different, equal to nothing, and equal by == but not by partial_cmp
ConsistencyPairs ==
    {<<"a", "a">>, <<"a", "b">>, <<"nan", "nan">>, <<"odd", "odd">>}
\* pairs of instances of a record of n fields, as one value pair per field
\* that carries a serial number; the two instances differ in every other field
RecordPairs(selected) == [selected -> ConsistencyPairs]
LeftOf(n, p) == [i \in 1..n |-> IF i \in DOMAIN p THEN p[i][1] ELSE "a"]
RightOf(n, p) == [i \in 1..n |-> IF i \in DOMAIN p THEN p[i][2] ELSE "b"]

\* the field's own == agrees with its own partial_cmp on x and y
Agrees(x, y) == field_eq(x, y) <=> (field_partial_cmp(x, y) = "Equal")
FieldsAgree(p) ==
    \A i \in DOMAIN p : Agrees(p[i][1], p[i][2]) /\ Agrees(p[i][2], p[i][1])
\* the two instances differ in no field that carries a serial number
SameInSelected(p) == \A i \in DOMAIN p : field_eq(p[i][1], p[i][2])

\* C11: the emitted equality and ordering exist exactly when some field
\* carries a serial number; they then read the same fields, each once:
\* exactly the fields that carry a serial number, skipped fields and fields
\* with disabled accessors included.  On every pair of instances whose
\* fields' == agrees with their partial_cmp, eq is true if and only if
\* partial_cmp is Equal, whatever the directions; and two instances that
\* differ only in fields without a serial number are equal.
C11_EqConsistentWithOrd ==
    /\ Emitted => (expanded.impl_traits.tag = "Some" <=> Selected(input) # {})
    /\ TraitsEmitted =>
        LET selected == Selected(input)
            partial_eq == expanded.impl_traits.partial_eq
            partial_ord == expanded.impl_traits.partial_ord
        IN  /\ EqFields = selected
            /\ CmpFields = selected
            /\ Len(partial_eq) = Cardinality(selected)
            /\ Len(partial_ord) = Cardinality(selected)
            /\ \A p \in RecordPairs(selected) :
                  LET a == LeftOf(NFields, p)
                      b == RightOf(NFields, p)
                      equal == eq(partial_eq, a, b)
                  IN  /\ FieldsAgree(p) =>
                            (equal <=> partial_cmp(partial_ord, a, b) = "Equal")
                      /\ SameInSelected(p) => equal

\* C11 without its proviso: a field whose == and partial_cmp disagree makes
\* eq true where partial_cmp is not Equal
C11_WithoutProviso ==
    TraitsEmitted =>
        \A p \in RecordPairs(Selected(input)) :
            eq(expanded.impl_traits.partial_eq, LeftOf(NFields, p), RightOf(NFields, p))
                <=> partial_cmp(expanded.impl_traits.partial_ord,
                                LeftOf(NFields, p), RightOf(NFields, p)) = "Equal"

\* C11 witness: a skipped field (serial 2, descending), a field with every
\* accessor disabled (serial 1) and a field without a serial number: no
\* method of the first two is emitted, and both impls read them and only
\* them
C11_Witness ==
    /\ TraitsEmitted
    /\ NFields = 3
    /\ input.fields[1].conf.skip
    /\ input.fields[1].conf.ord = [number |-> <<2>>, sort_type |-> "Descending"]
    /\ input.fields[2].conf.get.vis = "Disable"
    /\ input.fields[2].conf.ord = [number |-> <<1>>, sort_type |-> "Ascending"]
    /\ input.fields[3].conf.ord = NoOrd
    /\ ~input.fields[3].conf.skip
    /\ input.fields[3].conf.get.vis = "Public"
    /\ \A k \in 1..Len(expanded.impl_methods) : expanded.impl_methods[k].field = 3
    /\ expanded.impl_traits.partial_eq = <<2, 1>>
    /\ expanded.impl_traits.partial_ord
         = <<[field |-> 2, swapped |-> FALSE], [field |-> 1, swapped |-> TRUE]>>

=============================================================================
